---- MODULE Spec2Model ----
(***************************************************************************)
(* Model of the DBC parser of import_dbc (src/src/lib.rs).                 *)
(*                                                                         *)
(* Text is modelled character by character: a line is a sequence of        *)
(* one-character strings, the content of a file is the sequence of its     *)
(* lines (what contents.lines() yields).  The three regular expressions    *)
(* of the crate are modelled by matchers that search the line the way the  *)
(* regex crate does (unanchored, leftmost match, greedy repetitions).      *)
(***************************************************************************)
EXTENDS Integers, Sequences, FiniteSets, TLC

VARIABLES
    contents,    \* parse: the argument, a sequence of lines
    i,           \* parse: number of lines the for loop has consumed
    nodes,       \* parse: local `nodes`
    messages,    \* parse: local `messages`
    signals,     \* parse: local `signals` (pending buffer)
    in_message,  \* parse: local `in_message`
    pc,          \* parse: "loop", "done" (Dbc returned) or "panic"
    failure,     \* parse: the panic raised, if any
    content,     \* classifier run: the line handed to the extractor
    applied,     \* classifier run: which extractor was applied
    result,      \* classifier run: what it returned
    args,        \* Config::new: the argument list it is given
    config       \* Config::new: what it returned

vars == <<contents, i, nodes, messages, signals, in_message, pc, failure,
          content, applied, result, args, config>>

parseVars == <<contents, i, nodes, messages, signals, in_message, pc, failure>>
classVars == <<content, applied, result>>
configVars == <<args, config>>

-----------------------------------------------------------------------------
(* Characters and character classes                                        *)

\* A character of the ASCII range is the one-character string; a character
\* outside it is written by its code point.
AsciiDigit == {"0", "1", "2", "3", "4", "5", "6", "7", "8", "9"}

AsciiLetter ==
    {"A", "B", "C", "D", "E", "F", "G", "H", "I", "J", "K", "L", "M",
     "N", "O", "P", "Q", "R", "S", "T", "U", "V", "W", "X", "Y", "Z",
     "a", "b", "c", "d", "e", "f", "g", "h", "i", "j", "k", "l", "m",
     "n", "o", "p", "q", "r", "s", "t", "u", "v", "w", "x", "y", "z"}

\* ARABIC-INDIC DIGIT THREE: a decimal digit for the regex crate (Unicode
\* mode is its default), no digit for str::parse.
UniDigit == {"U+0663"}

\* \d of the regex crate
Digit == AsciiDigit \cup UniDigit

\* \w of the regex crate
Word == AsciiLetter \cup Digit \cup {"_"}

\* [0-9.+\-eE] of Signal::REGEX
NumChar == AsciiDigit \cup {".", "+", "-", "e", "E"}

\* [\+|\-] of Signal::REGEX: inside a class the bar is a literal
SignChar == {"+", "|", "-"}

\* char::is_whitespace, as far as the lines of the model go
White == {" ", "\t"}

-----------------------------------------------------------------------------
(* Sequence helpers                                                        *)

\* the character at position k, or "" past either end
At(s, k) == IF k \in 1..Len(s) THEN s[k] ELSE ""

\* s[a..b], empty when b < a
Slice(s, a, b) == IF b < a THEN <<>> ELSE SubSeq(s, a, b)

\* str::starts_with
starts_with(s, tag) ==
    /\ Len(tag) <= Len(s)
    /\ \A k \in 1..Len(tag) : s[k] = tag[k]

\* s holds lit at position p
HasAt(s, p, lit) == \A k \in 1..Len(lit) : At(s, p + k - 1) = lit[k]

\* str::trim: leading and trailing whitespace removed
trim(s) ==
    LET keep == {k \in 1..Len(s) : s[k] \notin White}
    IN  IF keep = {} THEN <<>>
        ELSE LET a == CHOOSE k \in keep : \A m \in keep : k <= m
                 b == CHOOSE k \in keep : \A m \in keep : m <= k
             IN SubSeq(s, a, b)

\* the end of the longest run of characters of class C starting at p
\* (p - 1 when s[p] is not in C): what a greedy C* consumes
RunEnd(s, p, C) ==
    IF p > Len(s) THEN p - 1
    ELSE CHOOSE q \in (p - 1)..Len(s) :
            /\ \A k \in p..q : s[k] \in C
            /\ At(s, q + 1) \notin C

-----------------------------------------------------------------------------
(* Integer parsing (str::parse::<u8/u16/u32>)                              *)

\* decimal digits without leading zeros ("0" for zero)
Canonical(ds) ==
    LET nz == {k \in 1..Len(ds) : ds[k] # "0"}
    IN  IF nz = {} THEN <<"0">>
        ELSE SubSeq(ds, CHOOSE k \in nz : \A m \in nz : k <= m, Len(ds))

DigitVal(c) ==
    CASE c = "0" -> 0 [] c = "1" -> 1 [] c = "2" -> 2 [] c = "3" -> 3
      [] c = "4" -> 4 [] c = "5" -> 5 [] c = "6" -> 6 [] c = "7" -> 7
      [] c = "8" -> 8 [] c = "9" -> 9

\* a < b or a = b for canonical digit sequences, compared as numbers
RECURSIVE LexLeq(_, _)
LexLeq(a, b) ==
    IF a = <<>> THEN TRUE
    ELSE IF DigitVal(Head(a)) # DigitVal(Head(b))
         THEN DigitVal(Head(a)) < DigitVal(Head(b))
         ELSE LexLeq(Tail(a), Tail(b))

NumLeq(a, b) ==
    \/ Len(a) < Len(b)
    \/ Len(a) = Len(b) /\ LexLeq(a, b)

U8_MAX  == <<"2", "5", "5">>
U16_MAX == <<"6", "5", "5", "3", "5">>
U32_MAX == <<"4", "2", "9", "4", "9", "6", "7", "2", "9", "5">>

\* str::parse for an unsigned type of maximum max: Ok with the value, or
\* Err (ParseIntError) on an empty token, a character that is no ASCII
\* digit, or a value above max.  The value is kept as its canonical decimal
\* digits: a u32 does not fit the integers of the model checker.
ParseUnsigned(tok, max) ==
    LET ds == IF At(tok, 1) = "+" THEN Tail(tok) ELSE tok
    IN  IF ds = <<>> \/ \E k \in 1..Len(ds) : ds[k] \notin AsciiDigit
        THEN [ok |-> FALSE, val |-> <<>>]
        ELSE IF NumLeq(Canonical(ds), max)
             THEN [ok |-> TRUE, val |-> Canonical(ds)]
             ELSE [ok |-> FALSE, val |-> <<>>]

-----------------------------------------------------------------------------
(* The constructs: tags, patterns, field extraction                        *)

WrongType      == "WrongType"
InvalidContent == "InvalidContent"

\* Result<T, DbcError>, or the panic of an unwrap inside T::from
Ok(v)    == [kind |-> "Ok",    err |-> "",  val |-> v]
Err(e)   == [kind |-> "Err",   err |-> e,   val |-> <<>>]
Panicked == [kind |-> "Panic", err |-> "ParseIntError", val |-> <<>>]

\* the panic of an index past the end of a slice
IndexPanicked == [kind |-> "Panic", err |-> "index out of bounds", val |-> <<>>]

\* Config::new has not been called
NotCalled == [kind |-> "none", err |-> "", val |-> <<>>]

\* Config::new; args[1] of the source is a[2] here (sequences start at 1)
Config_new(a) ==
    IF Len(a) < 1 THEN Err("not enough arguments")
    ELSE IF Len(a) < 2 THEN IndexPanicked
    ELSE Ok([filename |-> a[2]])

Node_TAG    == <<"B", "U", "_">>
Message_TAG == <<"B", "O", "_", " ">>
Signal_TAG  == <<"S", "G", "_", " ">>

\* Message::REGEX  BO_ (\w+) (\w+) *: (\w+) (\w+).*  tried at position p.
\* Every repetition is followed by a character outside its class, so the
\* greedy run is the only way to match.
Message_MatchAt(s, p) ==
    LET p1 == p + 4
        e1 == RunEnd(s, p1, Word)
        p2 == e1 + 2
        e2 == RunEnd(s, p2, Word)
        e3 == RunEnd(s, e2 + 1, {" "})
        p3 == e3 + 3
        e4 == RunEnd(s, p3, Word)
        p4 == e4 + 2
    IN  IF /\ HasAt(s, p, <<"B", "O", "_", " ">>)
           /\ e1 >= p1 /\ At(s, e1 + 1) = " "
           /\ e2 >= p2
           /\ At(s, e3 + 1) = ":" /\ At(s, e3 + 2) = " "
           /\ e4 >= p3 /\ At(s, e4 + 1) = " "
           /\ At(s, p4) \in Word
        THEN [ok |-> TRUE,
              cap |-> <<Slice(s, p1, e1), Slice(s, p2, e2), Slice(s, p3, e4)>>]
        ELSE [ok |-> FALSE, cap |-> <<>>]

\* Signal::REGEX tried at position p.  The unit "(.*)" is greedy: it runs to
\* the last quote of the line that a space follows.
Signal_MatchAt(s, p) ==
    LET p1  == p + 4
        e1  == RunEnd(s, p1, Word)
        p2  == e1 + 4
        e2  == RunEnd(s, p2, Digit)
        p3  == e2 + 2
        e3  == RunEnd(s, p3, Digit)
        p4  == e3 + 2
        e4  == RunEnd(s, p4, Digit)
        p6  == e4 + 4
        e6  == RunEnd(s, p6, NumChar)
        p7  == e6 + 2
        e7  == RunEnd(s, p7, NumChar)
        p8  == e7 + 4
        e8  == RunEnd(s, p8, NumChar)
        p9  == e8 + 2
        e9  == RunEnd(s, p9, NumChar)
        p10 == e9 + 4
        J   == {j \in p10..(Len(s) - 1) : s[j] = "\"" /\ s[j + 1] = " "}
        jq  == CHOOSE j \in J : \A m \in J : m <= j
    IN  IF /\ HasAt(s, p, <<"S", "G", "_", " ">>)
           /\ e1 >= p1 /\ HasAt(s, e1 + 1, <<" ", ":", " ">>)
           /\ e2 >= p2 /\ At(s, e2 + 1) = "|"
           /\ e3 >= p3 /\ At(s, e3 + 1) = "@"
           /\ e4 >= p4 /\ At(s, e4 + 1) \in SignChar
           /\ HasAt(s, e4 + 2, <<" ", "(">>)
           /\ e6 >= p6 /\ At(s, e6 + 1) = ","
           /\ e7 >= p7 /\ HasAt(s, e7 + 1, <<")", " ", "[">>)
           /\ e8 >= p8 /\ At(s, e8 + 1) = "|"
           /\ e9 >= p9 /\ HasAt(s, e9 + 1, <<"]", " ", "\"">>)
           /\ J # {}
        THEN [ok |-> TRUE,
              cap |-> <<Slice(s, p1, e1), Slice(s, p2, e2), Slice(s, p3, e3),
                        Slice(s, p4, e4), <<s[e4 + 1]>>,
                        Slice(s, p6, e6), Slice(s, p7, e7),
                        Slice(s, p8, e8), Slice(s, p9, e9),
                        Slice(s, p10, jq - 1)>>]
        ELSE [ok |-> FALSE, cap |-> <<>>]

\* Regex::captures: the leftmost match anywhere in the line
Message_captures(s) ==
    LET P == {p \in 1..Len(s) : Message_MatchAt(s, p).ok}
    IN  IF P = {} THEN [ok |-> FALSE, cap |-> <<>>]
        ELSE Message_MatchAt(s, CHOOSE p \in P : \A m \in P : p <= m)

Signal_captures(s) ==
    LET P == {p \in 1..Len(s) : Signal_MatchAt(s, p).ok}
    IN  IF P = {} THEN [ok |-> FALSE, cap |-> <<>>]
        ELSE Signal_MatchAt(s, CHOOSE p \in P : \A m \in P : p <= m)

\* Regex::captures_iter of Node::REGEX (\w+): the maximal word runs of the
\* line from position p on, left to right
RECURSIVE Node_captures_iter(_, _)
Node_captures_iter(s, p) ==
    IF p > Len(s) THEN <<>>
    ELSE IF s[p] \in Word
         THEN LET e == RunEnd(s, p, Word)
              IN  <<Slice(s, p, e)>> \o Node_captures_iter(s, e + 1)
         ELSE Node_captures_iter(s, p + 1)

\* Node::from
Node_from(cap0) == [name |-> cap0]

\* Message::from: the two unwraps panic on a token str::parse rejects
Message_from(cap) ==
    LET id   == ParseUnsigned(cap[1], U32_MAX)
        size == ParseUnsigned(cap[3], U8_MAX)
    IN  IF id.ok /\ size.ok
        THEN Ok([id |-> id.val, name |-> cap[2], size |-> size.val,
                 signals |-> <<>>])
        ELSE Panicked

\* Signal::from
Signal_from(cap) ==
    LET start_bit == ParseUnsigned(cap[2], U16_MAX)
        size      == ParseUnsigned(cap[3], U16_MAX)
    IN  IF start_bit.ok /\ size.ok
        THEN Ok([name |-> cap[1], start_bit |-> start_bit.val, size |-> size.val,
                 is_little_endian |-> (cap[4] = <<"1">>),
                 is_signed |-> (cap[5] = <<"-">>),
                 factor |-> cap[6], offset |-> cap[7],
                 value_min |-> cap[8], value_max |-> cap[9],
                 unit |-> cap[10]])
        ELSE Panicked

\* a classifier that takes every line without a match for another construct
parse_type_Message_lenient(line) ==
    LET c == trim(line)
        m == Message_captures(c)
    IN  IF ~m.ok THEN Err(WrongType) ELSE Message_from(m.cap)

\* parse_type::<Message>
parse_type_Message(line) ==
    LET c == trim(line)
        m == Message_captures(c)
    IN  IF ~m.ok
        THEN IF ~starts_with(c, Message_TAG) THEN Err(WrongType)
             ELSE Err(InvalidContent)
        ELSE Message_from(m.cap)

\* parse_type::<Signal>
parse_type_Signal(line) ==
    LET c == trim(line)
        m == Signal_captures(c)
    IN  IF ~m.ok
        THEN IF ~starts_with(c, Signal_TAG) THEN Err(WrongType)
             ELSE Err(InvalidContent)
        ELSE Signal_from(m.cap)

\* an extractor that calls a tagged line without names malformed
parse_type_vec_Node_strict(line) ==
    LET c    == trim(line)
        caps == Node_captures_iter(c, 1)
        keep == SelectSeq(caps, LAMBDA w : w # Node_TAG)
    IN  IF ~starts_with(c, Node_TAG) THEN Err(WrongType)
        ELSE IF keep = <<>> THEN Err(InvalidContent)
        ELSE Ok([k \in 1..Len(keep) |-> Node_from(keep[k])])

\* parse_type_vec::<Node>
parse_type_vec_Node(line) ==
    LET c    == trim(line)
        caps == Node_captures_iter(c, 1)
        keep == SelectSeq(caps, LAMBDA w : w # Node_TAG)
    IN  IF ~starts_with(c, Node_TAG) THEN Err(WrongType)
        ELSE Ok([k \in 1..Len(keep) |-> Node_from(keep[k])])

-----------------------------------------------------------------------------
(* The inputs of the model                                                 *)

\* an empty line
L_blank ==
    <<>>

\* BU_: A B
L_nodes1 ==
    <<"B", "U", "_", ":", " ", "A", " ", "B">>

\* BU_: C
L_nodes2 ==
    <<"B", "U", "_", ":", " ", "C">>

\* BU_SG_REL_  (a keyword of the NS_ section of a DBC file)
L_nodesRel ==
    <<"B", "U", "_", "S", "G", "_", "R", "E", "L", "_">>

\* BO_ 1 M: 8 V
L_msg1 ==
    <<"B", "O", "_", " ", "1", " ", "M", ":", " ", "8", " ", "V">>

\* BO_ 1 N : 2 V  (the id of L_msg1 again)
L_msg2 ==
    <<"B", "O", "_", " ", "1", " ", "N", " ", ":", " ", "2", " ", "V">>

\* BO_ 1 M: V  (no size field)
L_msgBad ==
    <<"B", "O", "_", " ", "1", " ", "M", ":", " ", "V">>

\* BO_ x M: 8 V  (an id that is a word, not a number)
L_msgAlpha ==
    <<"B", "O", "_", " ", "x", " ", "M", ":", " ", "8", " ", "V">>

\* CM_ BO_ 2 N: 8 V  (a header inside a line of another construct)
L_msgInner ==
    <<"C", "M", "_", " ", "B", "O", "_", " ", "2", " ", "N", ":", " ", "8", " ", "V">>

\*  SG_ s : 1|2@1+ (1,0) [0|3] "" V
L_sig1 ==
    <<" ", "S", "G", "_", " ", "s", " ", ":", " ", "1", "|", "2", "@", "1", "+", " ", "(", "1", ",", "0", ")", " ", "[", "0", "|", "3", "]", " ", "\"", "\"", " ", "V">>

\*  SG_ t : 0|8@0- (1,0) [0|3] "u" V
L_sig2 ==
    <<" ", "S", "G", "_", " ", "t", " ", ":", " ", "0", "|", "8", "@", "0", "-", " ", "(", "1", ",", "0", ")", " ", "[", "0", "|", "3", "]", " ", "\"", "u", "\"", " ", "V">>

\*  SG_ s : 1|21+ (1,0) [0|3] "" V  (no @)
L_sigBad ==
    <<" ", "S", "G", "_", " ", "s", " ", ":", " ", "1", "|", "2", "1", "+", " ", "(", "1", ",", "0", ")", " ", "[", "0", "|", "3", "]", " ", "\"", "\"", " ", "V">>

\* BU_: BO_ 1 M: 8 V  (a node list whose names spell a header)
L_nodesMsg ==
    <<"B", "U", "_", ":", " ", "B", "O", "_", " ", "1", " ", "M", ":", " ", "8", " ", "V">>

\* the lines a file of the model is made of
\* BU_:  (a node list without names)
L_nodesNone ==
    <<"B", "U", "_", ":">>

FileLines ==
    {L_blank, L_nodes1, L_nodes2, L_nodesRel, L_nodesMsg, L_msg1, L_msg2,
     L_msgBad, L_msgAlpha, L_sig1, L_sig2, L_sigBad, L_nodesNone}

\* the longest file of the model, in lines
MaxLines == 4

Files == UNION {[1..n -> FileLines] : n \in 0..MaxLines}

\* the characters an edit puts into a line
EditChars == {" ", "x", "1", ":", "|", "@", "+", "_", "\""}

Delete(s, k)     == Slice(s, 1, k - 1) \o Slice(s, k + 1, Len(s))
Insert(s, k, c)  == Slice(s, 1, k - 1) \o <<c>> \o Slice(s, k, Len(s))
Replace(s, k, c) == Slice(s, 1, k - 1) \o <<c>> \o Slice(s, k + 1, Len(s))

\* every line one edit away from s
Edits(s) ==
    {Delete(s, k) : k \in 1..Len(s)}
    \cup {Insert(s, k, c) : k \in 1..(Len(s) + 1), c \in EditChars}
    \cup {Replace(s, k, c) : k \in 1..Len(s), c \in EditChars}


\* BU_: A-B  (one token that is no single word)
L_nodesDash ==
    <<"B", "U", "_", ":", " ", "A", "-", "B">>

\* BU_: A BU_ B  (a name that spells the tag)
L_nodesTag ==
    <<"B", "U", "_", ":", " ", "A", " ", "B", "U", "_", " ", "B">>

\* SG_ t : 0|8@10- ...  (an order field of two digits)
L_sigOrder10 ==
    <<" ", "S", "G", "_", " ", "t", " ", ":", " ", "0", "|", "8", "@", "1", "0", "-", " ", "(", "1", ",", "0", ")", " ", "[", "0", "|", "3", "]", " ", "\"", "u", "\"", " ", "V">>

\* SG_ t : 007|08@1+ ...  (leading zeros)
L_sigLead0 ==
    <<" ", "S", "G", "_", " ", "t", " ", ":", " ", "0", "0", "7", "|", "0", "8", "@", "1", "+", " ", "(", "1", ",", "0", ")", " ", "[", "0", "|", "3", "]", " ", "\"", "u", "\"", " ", "V">>

\* SG_ t : 70000|8@1+ ...  (a start bit above u16)
L_sigBig ==
    <<" ", "S", "G", "_", " ", "t", " ", ":", " ", "7", "0", "0", "0", "0", "|", "8", "@", "1", "+", " ", "(", "1", ",", "0", ")", " ", "[", "0", "|", "3", "]", " ", "\"", "u", "\"", " ", "V">>

\* SG_ t : U+0663|8@1+ ...  (a digit str::parse does not know)
L_sigUni ==
    <<" ", "S", "G", "_", " ", "t", " ", ":", " ", "U+0663", "|", "8", "@", "1", "+", " ", "(", "1", ",", "0", ")", " ", "[", "0", "|", "3", "]", " ", "\"", "u", "\"", " ", "V">>

\* SG_ t : 0|8@1+ (1,0) [0|3] "a" b" c  (a second quote after the unit)
L_sigUnit ==
    <<" ", "S", "G", "_", " ", "t", " ", ":", " ", "0", "|", "8", "@", "1", "+", " ", "(", "1", ",", "0", ")", " ", "[", "0", "|", "3", "]", " ", "\"", "a", "\"", " ", "b", "\"", " ", "c">>

\* BO_ 4294967296 M: 8 V  (an id above u32)
L_msgBigId ==
    <<"B", "O", "_", " ", "4", "2", "9", "4", "9", "6", "7", "2", "9", "6", " ", "M", ":", " ", "8", " ", "V">>

\* BO_ 1 M: 256 V  (a size above u8)
L_msgBigSize ==
    <<"B", "O", "_", " ", "1", " ", "M", ":", " ", "2", "5", "6", " ", "V">>

\* BO_ 4294967295 M: 255 V  (the largest id and size)
L_msgMax ==
    <<"B", "O", "_", " ", "4", "2", "9", "4", "9", "6", "7", "2", "9", "5", " ", "M", ":", " ", "2", "5", "5", " ", "V">>

\* lines written out for the extractors alone
ExtraLines ==
    {L_msgInner, L_nodesDash, L_nodesTag, L_sigOrder10,
     L_sigLead0, L_sigBig, L_sigUni, L_sigUnit, L_msgBigId, L_msgBigSize,
     L_msgMax}

\* the lines the extractors are run on by themselves
ProbeLines ==
    FileLines \cup ExtraLines
    \cup Edits(L_nodes1) \cup Edits(L_msg2) \cup Edits(L_sig2)

-----------------------------------------------------------------------------
(* parse                                                                   *)

\* The extractors on the lines a file can hold, evaluated once.
NodeResult    == [l \in FileLines |-> parse_type_vec_Node(l)]
MessageResult == [l \in FileLines |-> parse_type_Message(l)]
SignalResult  == [l \in FileLines |-> parse_type_Signal(l)]

NoFailure == [kind |-> "none", line |-> 0, text |-> <<>>]

\* a message that counts lines from 0
LineFailure0(what, idx, line) == [kind |-> what, line |-> idx, text |-> line]

\* panic!("Error when parsing line {}: {}. <what>", i+1, line)
LineFailure(what, idx, line) == [kind |-> what, line |-> idx + 1, text |-> line]

\* the panic of an unwrap: it names neither line nor text
UnwrapFailure == [kind |-> "unwrap", line |-> 0, text |-> <<>>]

Init ==
    /\ contents \in Files
    /\ i = 0
    /\ nodes = <<>>
    /\ messages = <<>>
    /\ signals = <<>>
    /\ in_message = FALSE
    /\ pc = "loop"
    /\ failure = NoFailure
    /\ content = <<>>
    /\ applied = "none"
    /\ result = Err(WrongType)
    /\ args = <<>>
    /\ config = NotCalled

\* node lists that accumulate
append_nodes(old, new) == old \o new

\* nodes = new_nodes
assign_nodes(old, new) == new

\* a push that keeps one message per id
push_message_unique(msgs, m) ==
    IF \E k \in 1..Len(msgs) : msgs[k].id = m.id THEN msgs ELSE Append(msgs, m)

\* messages.push(new_message)
push_message(msgs, m) == Append(msgs, m)

\* signals.push(new_signal)
push_signal(sigs, s) == Append(sigs, s)

\* a close that takes the first message for the current one
set_first_signals(msgs, sigs) ==
    [msgs EXCEPT ![1].signals = sigs]

\* messages.last_mut().unwrap() followed by `.signals = signals.clone()`
set_last_signals(msgs, sigs) ==
    [msgs EXCEPT ![Len(msgs)].signals = sigs]

\* a close that keeps the buffer
retain(sigs) == sigs

\* signals.clear()
clear(sigs) == <<>>

\* a loop in which a line that is no node list resets the node sequence
OutsideLineResetsNodes ==
    /\ pc = "loop" /\ i < Len(contents) /\ ~in_message
    /\ LET line == contents[i + 1]
           n    == NodeResult[line]
           m    == MessageResult[line]
       IN  /\ nodes' = IF n.kind = "Ok" THEN n.val ELSE <<>>
           /\ CASE m.kind = "Ok" ->
                     /\ in_message' = TRUE
                     /\ messages' = push_message(messages, m.val)
                     /\ UNCHANGED <<pc, failure>>
                [] m.kind = "Err" /\ m.err = InvalidContent ->
                     /\ pc' = "panic"
                     /\ failure' = LineFailure("Invalid message start", i, line)
                     /\ UNCHANGED <<messages, in_message>>
                [] m.kind = "Panic" ->
                     /\ pc' = "panic"
                     /\ failure' = UnwrapFailure
                     /\ UNCHANGED <<messages, in_message>>
                [] OTHER ->
                     UNCHANGED <<messages, in_message, pc, failure>>
    /\ i' = i + 1
    /\ UNCHANGED <<contents, signals, classVars, configVars>>

\* one turn of the for loop with in_message false (lines 83-104)
OutsideLine ==
    /\ pc = "loop" /\ i < Len(contents) /\ ~in_message
    /\ LET line == contents[i + 1]
           n    == NodeResult[line]
           m    == MessageResult[line]
       IN  IF n.kind = "Err" /\ n.err = InvalidContent
           THEN /\ pc' = "panic"
                /\ failure' = LineFailure("Invalid syntax for nodes", i, line)
                /\ UNCHANGED <<nodes, messages, in_message>>
           ELSE /\ nodes' = IF n.kind = "Ok" THEN assign_nodes(nodes, n.val) ELSE nodes
                /\ CASE m.kind = "Ok" ->
                          /\ in_message' = TRUE
                          /\ messages' = push_message(messages, m.val)
                          /\ UNCHANGED <<pc, failure>>
                     [] m.kind = "Err" /\ m.err = InvalidContent ->
                          /\ pc' = "panic"
                          /\ failure' = LineFailure("Invalid message start", i, line)
                          /\ UNCHANGED <<messages, in_message>>
                     [] m.kind = "Panic" ->
                          /\ pc' = "panic"
                          /\ failure' = UnwrapFailure
                          /\ UNCHANGED <<messages, in_message>>
                     [] OTHER ->
                          UNCHANGED <<messages, in_message, pc, failure>>
    /\ i' = i + 1
    /\ UNCHANGED <<contents, signals, classVars, configVars>>

\* a loop that hands the line that ends a block to the Outside extractors too
InsideLineReevaluate ==
    /\ pc = "loop" /\ i < Len(contents) /\ in_message /\ messages # <<>>
    /\ LET line == contents[i + 1]
           s    == SignalResult[line]
           n    == NodeResult[line]
           m    == MessageResult[line]
           shut == set_last_signals(messages, signals)
       IN  CASE s.kind = "Ok" ->
                  /\ signals' = push_signal(signals, s.val)
                  /\ UNCHANGED <<nodes, messages, in_message, pc, failure>>
             [] s.kind = "Err" /\ s.err = InvalidContent ->
                  /\ pc' = "panic"
                  /\ failure' = LineFailure("Invalid signal", i, line)
                  /\ UNCHANGED <<nodes, messages, signals, in_message>>
             [] s.kind = "Panic" ->
                  /\ pc' = "panic"
                  /\ failure' = UnwrapFailure
                  /\ UNCHANGED <<nodes, messages, signals, in_message>>
             [] OTHER ->
                  /\ signals' = clear(signals)
                  /\ nodes' = IF n.kind = "Ok" THEN n.val ELSE nodes
                  /\ in_message' = (m.kind = "Ok")
                  /\ messages' = IF m.kind = "Ok" THEN push_message(shut, m.val)
                                 ELSE shut
                  /\ UNCHANGED <<pc, failure>>
    /\ i' = i + 1
    /\ UNCHANGED <<contents, classVars, configVars>>

\* one turn of the for loop with in_message true (lines 105-124)
InsideLine ==
    /\ pc = "loop" /\ i < Len(contents) /\ in_message
    /\ LET line == contents[i + 1]
           s    == SignalResult[line]
       IN  IF messages = <<>>
           THEN /\ pc' = "panic"
                /\ failure' = UnwrapFailure
                /\ UNCHANGED <<messages, signals, in_message>>
           ELSE CASE s.kind = "Ok" ->
                      /\ in_message' = TRUE
                      /\ signals' = push_signal(signals, s.val)
                      /\ UNCHANGED <<messages, pc, failure>>
                  [] s.kind = "Err" /\ s.err = InvalidContent ->
                      /\ pc' = "panic"
                      /\ failure' = LineFailure("Invalid signal", i, line)
                      /\ UNCHANGED <<messages, signals, in_message>>
                  [] s.kind = "Panic" ->
                      /\ pc' = "panic"
                      /\ failure' = UnwrapFailure
                      /\ UNCHANGED <<messages, signals, in_message>>
                  [] OTHER ->
                      /\ in_message' = FALSE
                      /\ messages' = set_last_signals(messages, signals)
                      /\ signals' = clear(signals)
                      /\ UNCHANGED <<pc, failure>>
    /\ i' = i + 1
    /\ UNCHANGED <<contents, nodes, classVars, configVars>>

\* a return that forgets the open block
FinishNoFlush ==
    /\ pc = "loop" /\ i = Len(contents)
    /\ pc' = "done"
    /\ UNCHANGED <<contents, i, nodes, messages, signals, in_message, failure,
                   classVars, configVars>>

\* after the loop (lines 127-134): flush an open block, return the Dbc
Finish ==
    /\ pc = "loop" /\ i = Len(contents)
    /\ IF in_message
       THEN IF messages = <<>>
            THEN /\ pc' = "panic"
                 /\ failure' = UnwrapFailure
                 /\ UNCHANGED messages
            ELSE /\ messages' = set_last_signals(messages, signals)
                 /\ pc' = "done"
                 /\ UNCHANGED failure
       ELSE /\ pc' = "done"
            /\ UNCHANGED <<messages, failure>>
    /\ UNCHANGED <<contents, i, nodes, signals, in_message, classVars, configVars>>

\* the value parse returns
Dbc == [nodes |-> nodes, messages |-> messages]

Next == OutsideLine \/ InsideLine \/ Finish

Spec == Init /\ [][Next]_vars

-----------------------------------------------------------------------------
(* The extractors run by themselves on one line                            *)

InitClassify ==
    /\ content \in ProbeLines
    /\ applied = "none"
    /\ result = Err(WrongType)
    /\ contents = <<>>
    /\ i = 0
    /\ nodes = <<>>
    /\ messages = <<>>
    /\ signals = <<>>
    /\ in_message = FALSE
    /\ pc = "done"
    /\ failure = NoFailure
    /\ args = <<>>
    /\ config = NotCalled

ApplyMessage ==
    /\ applied = "none"
    /\ applied' = "Message"
    /\ result' = parse_type_Message(content)
    /\ UNCHANGED <<content, parseVars, configVars>>

ApplySignal ==
    /\ applied = "none"
    /\ applied' = "Signal"
    /\ result' = parse_type_Signal(content)
    /\ UNCHANGED <<content, parseVars, configVars>>

ApplyNode ==
    /\ applied = "none"
    /\ applied' = "Node"
    /\ result' = parse_type_vec_Node(content)
    /\ UNCHANGED <<content, parseVars, configVars>>

NextClassify == ApplyMessage \/ ApplySignal \/ ApplyNode

SpecClassify == InitClassify /\ [][NextClassify]_vars

-----------------------------------------------------------------------------
(* Config::new applied to one argument list                                *)

\* the strings an argument can be
ArgStrings == {"import_dbc", "a.dbc", "b.dbc", ""}

MaxArgs == 3

ArgLists == UNION {[1..n -> ArgStrings] : n \in 0..MaxArgs}

InitConfig ==
    /\ args \in ArgLists
    /\ config = NotCalled
    /\ content = <<>>
    /\ applied = "none"
    /\ result = Err(WrongType)
    /\ contents = <<>>
    /\ i = 0
    /\ nodes = <<>>
    /\ messages = <<>>
    /\ signals = <<>>
    /\ in_message = FALSE
    /\ pc = "done"
    /\ failure = NoFailure

\* main: Config::new(&args)
ConfigNew ==
    /\ config = NotCalled
    /\ config' = Config_new(args)
    /\ UNCHANGED <<args, parseVars, classVars>>

NextConfig == ConfigNew

SpecConfig == InitConfig /\ [][NextConfig]_vars

-----------------------------------------------------------------------------
(* What the file says, read off the text of its lines                      *)

IsHeaderLine(l) == MessageResult[l].kind = "Ok"
IsSignalLine(l) == SignalResult[l].kind = "Ok"
IsNodeLine(l)   == NodeResult[l].kind = "Ok"

\* line k is read in state InsideMessage, when no line before it aborted
RECURSIVE InsideAt(_)
InsideAt(k) ==
    IF k <= 1 THEN FALSE
    ELSE IF InsideAt(k - 1) THEN IsSignalLine(contents[k - 1])
         ELSE IsHeaderLine(contents[k - 1])

\* the header lines among lines 1..k that open a block, in file order
RECURSIVE HeadersUpTo(_)
HeadersUpTo(k) ==
    IF k = 0 THEN <<>>
    ELSE IF ~InsideAt(k) /\ IsHeaderLine(contents[k])
         THEN Append(HeadersUpTo(k - 1), k)
         ELSE HeadersUpTo(k - 1)

\* the last line of the run of signal lines that follows header line h
SignalRunEnd(h) ==
    CHOOSE e \in h..Len(contents) :
        /\ \A j \in (h + 1)..e : IsSignalLine(contents[j])
        /\ e = Len(contents) \/ ~IsSignalLine(contents[e + 1])

\* the signals of lines a+1..b
SignalsOfLines(a, b) ==
    [j \in 1..(b - a) |-> SignalResult[contents[a + j]].val]

RECURSIVE TotalSignals(_)
TotalSignals(msgs) ==
    IF msgs = <<>> THEN 0
    ELSE Len(Head(msgs).signals) + TotalSignals(Tail(msgs))

-----------------------------------------------------------------------------
(* Claims                                                                  *)

\* C1: when parse returns a Dbc, the signals of each message are, in file
\* order, exactly the recognized signal lines between its header line and
\* the first following line that is no signal line (or the end of input);
\* no signal is counted twice or given to another message.
C1_SignalsOfBlock ==
    pc = "done" =>
        LET H == HeadersUpTo(Len(contents))
        IN  /\ Len(messages) = Len(H)
            /\ \A k \in 1..Len(H) :
                 messages[k].signals = SignalsOfLines(H[k], SignalRunEnd(H[k]))
            /\ TotalSignals(messages) =
                 Cardinality({j \in 1..Len(contents) :
                                InsideAt(j) /\ IsSignalLine(contents[j])})

\* a file with two blocks, the first of which holds a signal
C1_Witness ==
    /\ pc = "done"
    /\ Len(messages) = 2
    /\ messages[1].signals # <<>>
    /\ messages[2].signals = <<>>

\* C2: when the input ends inside a message block, the last message of the
\* returned Dbc holds exactly the signals of the lines after its header, in
\* order: the pending buffer is flushed at end of input.
C2_EndOfInputFlush ==
    (pc = "done" /\ InsideAt(Len(contents) + 1)) =>
        LET H == HeadersUpTo(Len(contents))
            h == H[Len(H)]
        IN  /\ H # <<>>
            /\ messages # <<>>
            /\ \A j \in (h + 1)..Len(contents) : IsSignalLine(contents[j])
            /\ messages[Len(messages)].signals = SignalsOfLines(h, Len(contents))

\* a file that ends with two signal lines of an open block
C2_Witness ==
    /\ pc = "done"
    /\ InsideAt(Len(contents) + 1)
    /\ Len(messages[Len(messages)].signals) = 2
    /\ IsSignalLine(contents[Len(contents)])

\* lines that begin with a tag and hold no match of that construct's pattern
MalformedHeaderLines ==
    {l \in FileLines :
        starts_with(trim(l), Message_TAG) /\ ~Message_captures(trim(l)).ok}

MalformedSignalLines ==
    {l \in FileLines :
        starts_with(trim(l), Signal_TAG) /\ ~Signal_captures(trim(l)).ok}

\* C3, as claimed: a line that begins with BO_ or SG_ and does not satisfy
\* the construct's pattern makes parse fail, in whatever state it is reached:
\* no Dbc is returned for a file that holds such a line.
C3_AsClaimed ==
    pc = "done" =>
        \A k \in 1..Len(contents) :
            contents[k] \notin MalformedHeaderLines \cup MalformedSignalLines

\* C3, amended: a line that begins with BO_ and holds no match of the header
\* pattern, reached in state Outside, and a line that begins with SG_ and
\* holds no match of the signal pattern, reached in state InsideMessage,
\* abort the parse at that line.
C3_FatalInItsState ==
    [][ ( /\ pc = "loop" /\ i < Len(contents)
          /\ \/ ~in_message /\ contents[i + 1] \in MalformedHeaderLines
             \/ in_message /\ contents[i + 1] \in MalformedSignalLines )
        => (pc' = "panic" /\ i' = i + 1 /\ failure'.kind # "unwrap") ]_vars

\* a malformed signal line has aborted the parse after a good signal line
C3_Witness ==
    /\ pc = "panic"
    /\ i >= 3
    /\ contents[i] \in MalformedSignalLines
    /\ InsideAt(i)
    /\ signals # <<>>

\* the construct whose extractor, tried on the next line in the present
\* state, answers InvalidContent ("" when none does)
MalformedConstruct ==
    LET line == contents[i + 1]
    IN  IF in_message
        THEN IF SignalResult[line] = Err(InvalidContent)
             THEN "Invalid signal" ELSE ""
        ELSE IF NodeResult[line] = Err(InvalidContent)
             THEN "Invalid syntax for nodes"
             ELSE IF MessageResult[line] = Err(InvalidContent)
                  THEN "Invalid message start" ELSE ""

\* C4: when an extractor tried by the state machine answers Malformed on
\* line number k (counted from 1), parse aborts there: the failure names k,
\* the raw text of the line and the construct, and no step follows an abort,
\* so no later line is processed and no Dbc is returned.
C4_AbortAtMalformedLine ==
    [][ /\ pc = "loop"
        /\ (i < Len(contents) /\ MalformedConstruct # "") =>
              /\ pc' = "panic"
              /\ i' = i + 1
              /\ failure'.kind = MalformedConstruct
              /\ failure'.line \in 1..Len(contents)
              /\ failure'.line = i + 1
              /\ failure'.text = contents[failure'.line] ]_vars

\* a malformed header on the third line has aborted the parse
C4_Witness ==
    /\ pc = "panic"
    /\ failure.kind = "Invalid message start"
    /\ failure.line = 3
    /\ failure.text = contents[3]
    /\ Len(contents) > 3

\* C5: a line Unrelated to the signal construct, reached in state
\* InsideMessage, closes the block (the pending signals go to the last
\* message, the buffer is emptied, the state becomes Outside) and is not
\* handed to the node-list or header extractor: no message is appended and
\* the nodes stay as they are.
C5_TerminatorConsumed ==
    [][ ( /\ pc = "loop" /\ i < Len(contents) /\ in_message
          /\ SignalResult[contents[i + 1]] = Err(WrongType) )
        => /\ pc' = "loop"
           /\ i' = i + 1
           /\ in_message' = FALSE
           /\ signals' = <<>>
           /\ Len(messages') = Len(messages)
           /\ messages' = [messages EXCEPT ![Len(messages)].signals = signals]
           /\ nodes' = nodes ]_vars

\* a well-formed header has just ended the block of the only message
C5_Witness ==
    /\ pc = "loop"
    /\ i >= 2
    /\ InsideAt(i)
    /\ IsHeaderLine(contents[i])
    /\ ~IsNodeLine(contents[i])
    /\ ~in_message
    /\ Len(messages) = 1

\* the pattern of a construct, matched from the first character of the
\* trimmed line on
SatisfiesPattern(construct, c) ==
    IF construct = "Message" THEN Message_MatchAt(c, 1).ok
    ELSE Signal_MatchAt(c, 1).ok

TagOf(construct) == IF construct = "Message" THEN Message_TAG ELSE Signal_TAG

\* C6: parse_type answers by tag and pattern: WrongType for every line
\* that does not begin with the construct's tag, InvalidContent for a line
\* that begins with the tag and does not satisfy the pattern, and a record
\* only for a line that begins with the tag and satisfies the pattern.
C6_ThreeWayByTagAndPattern ==
    applied \in {"Message", "Signal"} =>
        LET c      == trim(content)
            tagged == starts_with(c, TagOf(applied))
        IN  /\ ~tagged => result = Err(WrongType)
            /\ (tagged /\ ~SatisfiesPattern(applied, c)) =>
                  result = Err(InvalidContent)
            /\ result.kind = "Ok" => (tagged /\ SatisfiesPattern(applied, c))

\* the fields of the header of line k
HeaderOf(k) == MessageResult[contents[k]].val

\* C7: the messages are the header lines recognized in state Outside, one
\* message per line, in file order, with the id, name and size of the line
\* (two headers with one id both appear); such a line moves the state to
\* InsideMessage; a message once appended is neither removed nor moved nor
\* changed in id, name or size.
C7_MessagesAreHeaders ==
    /\ [](pc # "panic" =>
            LET H == HeadersUpTo(i)
            IN  /\ Len(messages) = Len(H)
                /\ \A k \in 1..Len(H) :
                     /\ messages[k].id = HeaderOf(H[k]).id
                     /\ messages[k].name = HeaderOf(H[k]).name
                     /\ messages[k].size = HeaderOf(H[k]).size
                     /\ contents[H[k]] = L_msg2 =>
                          /\ messages[k].id = <<"1">>
                          /\ messages[k].name = <<"N">>
                          /\ messages[k].size = <<"2">>
                /\ (pc = "loop" /\ H # <<>> /\ H[Len(H)] = i) => in_message)
    /\ [][ /\ Len(messages') >= Len(messages)
           /\ \A k \in 1..Len(messages) :
                /\ messages'[k].id = messages[k].id
                /\ messages'[k].name = messages[k].name
                /\ messages'[k].size = messages[k].size ]_vars

\* two headers with the same id are both in the result
C7_Witness ==
    /\ pc = "done"
    /\ Len(messages) = 2
    /\ messages[1].id = messages[2].id
    /\ messages[1].name # messages[2].name

\* the nodes of the last line among K, none when K is empty
NodesOfLast(K) ==
    IF K = {} THEN <<>>
    ELSE NodeResult[contents[CHOOSE k \in K : \A m \in K : m <= k]].val

\* C8, as claimed: the nodes of the result are those of the last node-list
\* line of the file, and there are none when the file has no such line.
C8_AsClaimed ==
    pc = "done" =>
        nodes = NodesOfLast({k \in 1..Len(contents) : IsNodeLine(contents[k])})

\* C8, amended: the nodes of the result are those the node-list extractor
\* yields for the last line it recognizes among the lines read in state
\* Outside, and there are none when no such line exists; a node-list line
\* that ends a message block contributes nothing.
C8_LastNodeLineReadOutside ==
    pc = "done" =>
        nodes = NodesOfLast({k \in 1..Len(contents) :
                               ~InsideAt(k) /\ IsNodeLine(contents[k])})

\* two node lists read Outside, then a third that ends a block
C8_Witness ==
    /\ pc = "done"
    /\ Len(contents) = 4
    /\ contents[1] = L_nodes1
    /\ contents[2] = L_nodes2
    /\ IsHeaderLine(contents[3])
    /\ contents[4] = L_nodes1
    /\ nodes = <<[name |-> <<"C">>]>>

\* the lines that begin with the node-list tag of the format, BU_:
NodeListLines ==
    {l \in FileLines : starts_with(trim(l), <<"B", "U", "_", ":">>)}

\* C9: after two adjacent node-list lines have been processed, the nodes are
\* exactly the names of the second line, whatever the state before the first.
C9_SecondOfTwoNodeLists ==
    ( /\ pc = "loop" /\ i >= 2
      /\ contents[i - 1] \in NodeListLines
      /\ contents[i] \in NodeListLines )
    => nodes = NodeResult[contents[i]].val

\* C10: only a line that begins with BU_: is taken for a node list; lines
\* that do not begin with it leave the nodes as they are.
C10_OnlyTaggedLinesSetNodes ==
    ( /\ pc # "panic"
      /\ \A k \in 1..i : contents[k] \notin NodeListLines )
    => nodes = <<>>

\* the whitespace-delimited tokens of s from position p on
RECURSIVE TokensFrom(_, _)
TokensFrom(s, p) ==
    IF p > Len(s) THEN <<>>
    ELSE IF s[p] \in White THEN TokensFrom(s, p + 1)
         ELSE LET e == CHOOSE q \in p..Len(s) :
                          /\ \A k \in p..q : s[k] \notin White
                          /\ q = Len(s) \/ s[q + 1] \in White
              IN  <<Slice(s, p, e)>> \o TokensFrom(s, e + 1)

\* C11: for a node-list line the extractor yields one Node per
\* whitespace-delimited token after the leading tag token, in order, named
\* by that token: no token is dropped or split.
C11_OneNodePerToken ==
    LET T == TokensFrom(trim(content), 1)
    IN  (applied = "Node" /\ T # <<>> /\ T[1] = <<"B", "U", "_", ":">>) =>
            /\ result.kind = "Ok"
            /\ result.val = [k \in 1..(Len(T) - 1) |-> [name |-> T[k + 1]]]

\* the number a sequence of ASCII digits writes
RECURSIVE NumVal(_)
NumVal(ds) ==
    IF ds = <<>> THEN 0
    ELSE 10 * NumVal(SubSeq(ds, 1, Len(ds) - 1)) + DigitVal(ds[Len(ds)])

\* C12: for a recognized signal line, is_little_endian is true exactly when
\* the order field is 1; is_signed is true exactly when the sign character
\* is - and false exactly when it is +; start_bit and size are the numbers
\* their digit fields write; name, factor, offset, value_min, value_max and
\* unit are the text of their fields.
C12_SignalFields ==
    (applied = "Signal" /\ result.kind = "Ok") =>
        LET f == Signal_captures(trim(content)).cap
            v == result.val
        IN  /\ v.is_little_endian <=> (f[4] = <<"1">>)
            /\ v.is_signed <=> (f[5] = <<"-">>)
            /\ ~v.is_signed <=> (f[5] = <<"+">>)
            /\ NumVal(v.start_bit) = NumVal(f[2])
            /\ NumVal(v.size) = NumVal(f[3])
            /\ v.name = f[1]
            /\ v.factor = f[6]
            /\ v.offset = f[7]
            /\ v.value_min = f[8]
            /\ v.value_max = f[9]
            /\ v.unit = f[10]

\* the position of the first @ of s (0 when s has none)
FirstAt(s) ==
    LET Q == {q \in 1..Len(s) : s[q] = "@"}
    IN  IF Q = {} THEN 0 ELSE CHOOSE q \in Q : \A m \in Q : q <= m

\* after its first @ the line has one order digit and then + or -
SingleOrderDigitAndSign(s) ==
    LET q == FirstAt(s)
    IN  /\ q > 0
        /\ At(s, q + 1) \in Digit
        /\ At(s, q + 2) \in {"+", "-"}

\* C13: a line that begins with SG_ is recognized only if, after @, it has
\* a single order digit and then + or -; with an order field of several
\* digits, another character in the sign position, or no @, it is Malformed.
C13_OrderDigitAndSign ==
    LET c == trim(content)
    IN  ( /\ applied = "Signal"
          /\ starts_with(c, Signal_TAG)
          /\ ~SingleOrderDigitAndSign(c) )
        => result = Err(InvalidContent)

\* the token is a decimal number larger than max
Exceeds(tok, max) ==
    /\ tok # <<>>
    /\ \A k \in 1..Len(tok) : tok[k] \in AsciiDigit
    /\ ~NumLeq(Canonical(tok), max)

\* C14: on a line that matches the message-header pattern extraction fails
\* only when the id token exceeds the 32-bit unsigned range or the size
\* token exceeds the 8-bit unsigned range, and then the classifier yields
\* InvalidContent: it fails in no other way.
C14_NumericOverflowIsMalformed ==
    LET c == trim(content)
        cap == Message_captures(c).cap
    IN  ( /\ applied = "Message"
          /\ starts_with(c, Message_TAG)
          /\ Message_captures(c).ok
          /\ result.kind # "Ok" )
        => /\ result = Err(InvalidContent)
           /\ Exceeds(cap[1], U32_MAX) \/ Exceeds(cap[3], U8_MAX)

\* the line about to be read is Unrelated to both Outside extractors
UnrelatedOutside(line) ==
    /\ NodeResult[line] = Err(WrongType)
    /\ MessageResult[line] = Err(WrongType)

\* C15: in state Outside a line Unrelated to both the node-list and the
\* message-header extractor leaves the node sequence, the message sequence,
\* the pending signal buffer and the state unchanged and raises no failure.
C15_UnrelatedLineSkipped ==
    [][ ( /\ pc = "loop" /\ i < Len(contents) /\ ~in_message
          /\ UnrelatedOutside(contents[i + 1]) )
        => /\ nodes' = nodes
           /\ messages' = messages
           /\ signals' = signals
           /\ in_message' = in_message
           /\ pc' = "loop"
           /\ failure' = failure
           /\ i' = i + 1 ]_vars

\* a blank line has been skipped in state Outside, after a node list and a
\* closed block had been read
C15_Witness ==
    /\ pc = "loop"
    /\ i >= 3
    /\ ~InsideAt(i)
    /\ UnrelatedOutside(contents[i])
    /\ ~in_message
    /\ nodes # <<>>
    /\ messages # <<>>
    /\ failure = NoFailure

\* C17: in every reachable state of the loop the pending signal buffer is
\* empty whenever the state is Outside, and the message sequence is
\* non-empty whenever the state is InsideMessage (taking the last message
\* never fails); so a closed block holds no signal of an earlier block.
C17_BufferAndLastMessage ==
    pc # "panic" =>
        LET H    == HeadersUpTo(i)
            open == in_message /\ pc = "loop"
        IN  /\ ~in_message => signals = <<>>
            /\ in_message => messages # <<>>
            /\ Len(messages) = Len(H)
            /\ open => /\ signals = SignalsOfLines(H[Len(H)], i)
                       /\ messages[Len(H)].signals = <<>>
            /\ \A k \in 1..Len(H) :
                 (k < Len(H) \/ ~open) =>
                     messages[k].signals =
                         SignalsOfLines(H[k], SignalRunEnd(H[k]))

\* the flush at end of input closed a second, empty block after a first
\* block that had signals
C17_Witness ==
    /\ pc = "done"
    /\ in_message
    /\ Len(messages) = 2
    /\ messages[1].signals # <<>>
    /\ messages[2].signals = <<>>

\* the line begins with the node tag and holds no identifier after it
NoIdentifier(line) ==
    LET c == trim(line)
    IN  /\ starts_with(c, Node_TAG)
        /\ \A p \in (Len(Node_TAG) + 1)..Len(c) : c[p] \notin Word

\* C18: the node-list extractor never classifies a line as Malformed: it
\* returns WrongType or a (possibly empty) node sequence, parse never ends
\* in the failure 'Invalid syntax for nodes', and a node-list line with no
\* identifier, read in state Outside, leaves the node sequence empty.
C18_NodesNeverMalformed ==
    /\ \A k \in 1..Len(contents) :
         \/ NodeResult[contents[k]].kind = "Ok"
         \/ NodeResult[contents[k]] = Err(WrongType)
    /\ failure.kind # "Invalid syntax for nodes"
    /\ ( /\ pc = "loop" /\ i >= 1
         /\ ~InsideAt(i)
         /\ NoIdentifier(contents[i]) )
       => nodes = <<>>

\* a node list with names, then a node list without: no node is left
C18_Witness ==
    /\ pc = "loop"
    /\ i = 2
    /\ NodeResult[contents[1]].kind = "Ok"
    /\ NodeResult[contents[1]].val # <<>>
    /\ NoIdentifier(contents[2])
    /\ nodes = <<>>
    /\ failure = NoFailure

\* C19: Config::new returns the error value "not enough arguments" for
\* every argument list without a filename entry (the empty list, and the
\* list that holds only the program name), and Ok with filename equal to
\* the entry at index 1 for every list of two or more entries.
C19_NotEnoughArguments ==
    config # NotCalled =>
        IF Len(args) < 2
        THEN config = Err("not enough arguments")
        ELSE config = Ok([filename |-> args[2]])

====
